---- MODULE Spec2Model ----
(***************************************************************************)
(* A model of pystreams: the Stream class (src/streams/streams.py) and the *)
(* collectors (src/streams/collectors.py).                                 *)
(*                                                                         *)
(* Two streams are built at construction, a over the values src and b     *)
(* over the values srcB.  One further stage may be derived from a (or from *)
(* a and b, for concat).  A caller then pulls elements through the three   *)
(* handles and runs terminal operations on them.  Every pull of a cursor   *)
(* and every call of a caller-supplied function is appended to log.        *)
(***************************************************************************)
EXTENDS Integers, Sequences, FiniteSets, TLC

\* ---- bounds -----------------------------------------------------------
MaxVal == 2
MaxLen == 3
MaxOps == 2
MaxPulls == 4

Values == 1..MaxVal
Preds == SUBSET Values
Mappers == {"id", "inc"}
KeyFns == {"id", "zero"}
FlatMappers == {"below", "rep"}
Handles == {"a", "b", "stage"}

BSeq(n) == UNION {[1..k -> Values] : k \in 0..n}

VARIABLES src, srcB, pos, posB, stage, log, last, nops, listed, run, gen

vars == <<src, srcB, pos, posB, stage, log, last, nops, listed, run, gen>>

\* ---- caller-supplied functions ----------------------------------------
\* A mapper, key function or value function, named by f.
Apply(f, v) ==
    CASE f = "id" -> v
      [] f = "inc" -> v + 1
      [] f = "zero" -> 0
      [] f = "dbl" -> 2 * v
      [] OTHER -> v

\* The nested sequence a flat_map mapper returns for v: below gives
\* 1, ..., v-1, rep gives 1, ..., 2(v-1); both give nothing for 1.
Nested(m, v) ==
    IF m = "rep" THEN [k \in 1..(2 * (v - 1)) |-> k]
    ELSE [k \in 1..(v - 1) |-> k]

\* ---- the log -----------------------------------------------------------
Ev(e, who, i, v) == [e |-> e, who |-> who, i |-> i, v |-> v]

Val(v, i) == [tag |-> "val", v |-> v, i |-> i]
Stop == [tag |-> "stop", v |-> 0, i |-> 0]
Err == [tag |-> "err", v |-> 0, i |-> 0]

NoStage == [kind |-> "none", n |-> 0, cnt |-> 0, done |-> FALSE,
            p |-> {}, f |-> "id", inner |-> <<>>, at |-> 0]

\* The state of all cursors, as the operators below pass it along.
CS == [pos |-> pos, posB |-> posB, stage |-> stage, log |-> log, gen |-> gen]

Logged(cs, e) == [cs EXCEPT !.log = Append(@, e)]

\* ---- the source cursors --------------------------------------------------
\* The generator of Stream.iterate(seed, f), when stream a is built by it:
\* seed and f are its arguments, x is its local variable, started says that
\* it stands at its yield.
NoGen == [on |-> FALSE, seed |-> 0, f |-> "id", x |-> 0, started |-> FALSE]

\* an iterate whose loop body is  x = f(x); yield x
iterate_it_step_first(cs) ==
    LET x == Apply(cs.gen.f, cs.gen.x) IN
    [cs |-> Logged(Logged([cs EXCEPT !.pos = @ + 1, !.gen.x = x,
                                     !.gen.started = TRUE],
                          Ev("call", "f", cs.pos + 1, cs.gen.x)),
                   Ev("src", "a", cs.pos + 1, x)),
     out |-> Val(x, cs.pos + 1)]

\* the generator of iterate: x = seed; while True: yield x; x = f(x)
iterate_it(cs) ==
    IF ~cs.gen.started
    THEN [cs |-> Logged([cs EXCEPT !.pos = @ + 1, !.gen.started = TRUE],
                        Ev("src", "a", cs.pos + 1, cs.gen.x)),
          out |-> Val(cs.gen.x, cs.pos + 1)]
    ELSE LET x == Apply(cs.gen.f, cs.gen.x) IN
         [cs |-> Logged(Logged([cs EXCEPT !.pos = @ + 1, !.gen.x = x],
                               Ev("call", "f", cs.pos + 1, cs.gen.x)),
                        Ev("src", "a", cs.pos + 1, x)),
          out |-> Val(x, cs.pos + 1)]

\* iter(values) of Stream.__init__, or the generator handed to it by iterate
next_a(cs) ==
    IF cs.gen.on THEN iterate_it(cs)
    ELSE IF cs.pos < Len(src)
    THEN [cs |-> Logged([cs EXCEPT !.pos = @ + 1],
                        Ev("src", "a", cs.pos + 1, src[cs.pos + 1])),
          out |-> Val(src[cs.pos + 1], cs.pos + 1)]
    ELSE [cs |-> Logged(cs, Ev("srcstop", "a", 0, 0)), out |-> Stop]

next_b(cs) ==
    IF cs.posB < Len(srcB)
    THEN [cs |-> Logged([cs EXCEPT !.posB = @ + 1],
                        Ev("src", "b", cs.posB + 1, srcB[cs.posB + 1])),
          out |-> Val(srcB[cs.posB + 1], cs.posB + 1)]
    ELSE [cs |-> Logged(cs, Ev("srcstop", "b", 0, 0)), out |-> Stop]

\* ---- the derived cursors ------------------------------------------------
\* builtin filter(predicate, self.it): pull until the predicate holds.
RECURSIVE filter_next(_)
filter_next(cs) ==
    LET r == next_a(cs) IN
    IF r.out.tag # "val" THEN r
    ELSE LET c == Logged(r.cs, Ev("call", "predicate", r.out.i, r.out.v)) IN
         IF r.out.v \in cs.stage.p THEN [cs |-> c, out |-> r.out]
         ELSE filter_next(c)

\* a map over a copy of the values, with a position of its own
map_next_copy(cs) ==
    LET r == next_a([cs EXCEPT !.pos = cs.stage.cnt]) IN
    IF r.out.tag # "val" THEN [r EXCEPT !.cs.pos = cs.pos]
    ELSE [cs |-> [Logged(r.cs, Ev("call", "mapper", r.out.i, r.out.v))
                    EXCEPT !.stage.cnt = @ + 1, !.pos = cs.pos],
          out |-> Val(Apply(cs.stage.f, r.out.v), r.out.i)]

\* builtin map(mapper, self.it)
map_next(cs) ==
    LET r == next_a(cs) IN
    IF r.out.tag # "val" THEN r
    ELSE [cs |-> Logged(r.cs, Ev("call", "mapper", r.out.i, r.out.v)),
          out |-> Val(Apply(cs.stage.f, r.out.v), r.out.i)]

\* a peek whose body is  yield v; action(v): the action runs when the
\* generator is resumed
peek_it_yield_first(cs) ==
    IF cs.stage.done THEN [cs |-> cs, out |-> Stop]
    ELSE LET c == IF cs.stage.at > 0
                  THEN Logged(cs, Ev("call", "action", cs.stage.at,
                                     src[cs.stage.at]))
                  ELSE cs
             r == next_a(c) IN
         IF r.out.tag # "val"
         THEN [cs |-> [r.cs EXCEPT !.stage.done = TRUE], out |-> Stop]
         ELSE [cs |-> [r.cs EXCEPT !.stage.at = r.out.i], out |-> r.out]

\* the generator of peek: for v in self.it: action(v); yield v
peek_it(cs) ==
    IF cs.stage.done THEN [cs |-> cs, out |-> Stop]
    ELSE LET r == next_a(cs) IN
         IF r.out.tag # "val"
         THEN [cs |-> [r.cs EXCEPT !.stage.done = TRUE], out |-> Stop]
         ELSE [cs |-> Logged(r.cs, Ev("call", "action", r.out.i, r.out.v)),
               out |-> r.out]

\* a limit that pulls the next element before it looks at the count
limit_it_pull_first(cs) ==
    IF cs.stage.done THEN [cs |-> cs, out |-> Stop]
    ELSE LET r == next_a(cs) IN
         IF r.out.tag = "val" /\ cs.stage.cnt < cs.stage.n
         THEN [cs |-> [r.cs EXCEPT !.stage.cnt = @ + 1], out |-> r.out]
         ELSE [cs |-> [r.cs EXCEPT !.stage.done = TRUE], out |-> Stop]

\* the generator of limit: for _ in range(max_size): yield next(self.it).
\* A StopIteration raised by next() inside a generator body leaves the
\* generator as RuntimeError (PEP 479).
limit_it(cs) ==
    IF cs.stage.done THEN [cs |-> cs, out |-> Stop]
    ELSE IF cs.stage.cnt >= cs.stage.n
    THEN [cs |-> [cs EXCEPT !.stage.done = TRUE], out |-> Stop]
    ELSE LET r == next_a(cs) IN
         IF r.out.tag = "val"
         THEN [cs |-> [r.cs EXCEPT !.stage.cnt = @ + 1], out |-> r.out]
         ELSE [cs |-> [r.cs EXCEPT !.stage.done = TRUE], out |-> Err]

\* a concat whose body is  yield from b; yield from a
concat_it_b_first(cs) ==
    IF cs.stage.done THEN [cs |-> cs, out |-> Stop]
    ELSE LET rb == IF cs.stage.cnt = 0 THEN next_b(cs)
                   ELSE [cs |-> cs, out |-> Stop] IN
         IF rb.out.tag = "val" THEN rb
         ELSE LET ra == next_a([rb.cs EXCEPT !.stage.cnt = 1]) IN
              IF ra.out.tag = "val" THEN ra
              ELSE [cs |-> [ra.cs EXCEPT !.stage.done = TRUE], out |-> Stop]

\* the generator of concat: yield from a; yield from b
concat_it(cs) ==
    IF cs.stage.done THEN [cs |-> cs, out |-> Stop]
    ELSE LET ra == IF cs.stage.cnt = 0 THEN next_a(cs)
                   ELSE [cs |-> cs, out |-> Stop] IN
         IF ra.out.tag = "val" THEN ra
         ELSE LET rb == next_b([ra.cs EXCEPT !.stage.cnt = 1]) IN
              IF rb.out.tag = "val" THEN rb
              ELSE [cs |-> [rb.cs EXCEPT !.stage.done = TRUE], out |-> Stop]

\* a flat_map that yields the first element of mapper(v) only:
\* for v in self.it: yield from islice(mapper(v), 1)
RECURSIVE flat_map_it_heads(_)
flat_map_it_heads(cs) ==
    IF cs.stage.done THEN [cs |-> cs, out |-> Stop]
    ELSE IF cs.stage.inner # <<>>
    THEN [cs |-> [cs EXCEPT !.stage.inner = <<>>],
          out |-> Val(Head(cs.stage.inner), cs.stage.at)]
    ELSE LET r == next_a(cs) IN
         IF r.out.tag # "val"
         THEN [cs |-> [r.cs EXCEPT !.stage.done = TRUE], out |-> Stop]
         ELSE flat_map_it_heads(
                [Logged(r.cs, Ev("call", "mapper", r.out.i, r.out.v))
                   EXCEPT !.stage.inner = Nested(cs.stage.f, r.out.v),
                          !.stage.at = r.out.i])

\* the generator of flat_map: for v in self.it: yield from mapper(v)
RECURSIVE flat_map_it(_)
flat_map_it(cs) ==
    IF cs.stage.done THEN [cs |-> cs, out |-> Stop]
    ELSE IF cs.stage.inner # <<>>
    THEN [cs |-> [cs EXCEPT !.stage.inner = Tail(@)],
          out |-> Val(Head(cs.stage.inner), cs.stage.at)]
    ELSE LET r == next_a(cs) IN
         IF r.out.tag # "val"
         THEN [cs |-> [r.cs EXCEPT !.stage.done = TRUE], out |-> Stop]
         ELSE flat_map_it(
                [Logged(r.cs, Ev("call", "mapper", r.out.i, r.out.v))
                   EXCEPT !.stage.inner = Nested(cs.stage.f, r.out.v),
                          !.stage.at = r.out.i])

\* iter(values) of Stream.__init__ over the list that sorted() built
sorted_next(cs) ==
    IF cs.stage.inner = <<>> THEN [cs |-> cs, out |-> Stop]
    ELSE [cs |-> [cs EXCEPT !.stage.inner = Tail(@), !.stage.cnt = @ + 1],
          out |-> Val(Head(cs.stage.inner), cs.stage.cnt + 1)]

\* self.it.__next__() of the stream behind handle h
it_next(h, cs) ==
    CASE h = "a" -> next_a(cs)
      [] h = "b" -> next_b(cs)
      [] h = "stage" /\ cs.stage.kind = "filter" -> filter_next(cs)
      [] h = "stage" /\ cs.stage.kind = "map" -> map_next(cs)
      [] h = "stage" /\ cs.stage.kind = "peek" -> peek_it(cs)
      [] h = "stage" /\ cs.stage.kind = "limit" -> limit_it(cs)
      [] h = "stage" /\ cs.stage.kind = "concat" -> concat_it(cs)
      [] h = "stage" /\ cs.stage.kind = "flat_map" -> flat_map_it(cs)
      [] h = "stage" /\ cs.stage.kind = "sorted" -> sorted_next(cs)
      [] OTHER -> next_a(cs)

\* Stream.__next__: one pull by a consumer of handle h; what the consumer
\* receives is logged after everything the pull caused.
Stream_next(h, cs) ==
    LET r == it_next(h, cs) IN
    [cs |-> Logged(r.cs, Ev(CASE r.out.tag = "val" -> "got"
                              [] r.out.tag = "stop" -> "stop"
                              [] OTHER -> "err", h, r.out.i, r.out.v)),
     out |-> r.out]

\* ---- intermediate stages: each returns the state with the new stage ----
Staged(cs, kind) == [cs EXCEPT !.stage = [NoStage EXCEPT !.kind = kind]]

\* Stream(filter(predicate, self.it))
filter(cs, p) == [Staged(cs, "filter") EXCEPT !.stage.p = p]

\* Stream(map(mapper, self.it))
map(cs, f) == [Staged(cs, "map") EXCEPT !.stage.f = f]

\* Stream(it()) of flat_map: the generator body does not run until pulled
flat_map(cs, m) == [Staged(cs, "flat_map") EXCEPT !.stage.f = m]

\* a peek that runs the action over the whole upstream when it is created
RECURSIVE peek_all(_)
peek_all(cs) ==
    LET r == next_a(cs) IN
    IF r.out.tag # "val" THEN r.cs
    ELSE peek_all(Logged(r.cs, Ev("call", "action", r.out.i, r.out.v)))

peek_eager(cs) == Staged(peek_all(cs), "peek")

\* Stream(it()) of peek
peek(cs) == Staged(cs, "peek")

\* Stream(it()) of limit
limit(cs, n) == [Staged(cs, "limit") EXCEPT !.stage.n = n]

\* Stream(it()) of concat
concat(cs) == Staged(cs, "concat")

\* a skip loop that gives up at StopIteration only after it has asked again
RECURSIVE skip_loop_through(_, _)
skip_loop_through(cs, n) ==
    IF n = 0 THEN next_a(cs).cs
    ELSE LET r == next_a(cs) IN
         IF r.out.tag = "val" THEN skip_loop_through(r.cs, n - 1) ELSE r.cs

\* skip: next(self.it) up to n times, giving up at StopIteration, then
\* Stream(self.it): the new stream holds the same iterator object.
RECURSIVE skip_loop(_, _)
skip_loop(cs, n) ==
    IF n = 0 THEN cs
    ELSE LET r == next_a(cs) IN
         IF r.out.tag = "val" THEN skip_loop(r.cs, n - 1) ELSE r.cs

\* (at keeps where the cursor stood when skip was called)
skip(cs, n) ==
    [Staged(skip_loop(cs, n), "skip") EXCEPT !.stage.n = n, !.stage.at = cs.pos]

\* the builtin sorted over an iterator: it takes every element, up to
\* StopIteration, and returns them as a list in ascending order, equal
\* elements in the order they came
RECURSIVE sorted_drain(_, _)
sorted_drain(cs, acc) ==
    LET r == next_a(cs) IN
    IF r.out.tag = "val" THEN sorted_drain(r.cs, Append(acc, r.out.v))
    ELSE [cs |-> r.cs, acc |-> acc]

RECURSIVE sorted_insert(_, _)
sorted_insert(xs, v) ==
    IF xs = <<>> THEN <<v>>
    ELSE IF v < Head(xs) THEN <<v>> \o xs
    ELSE <<Head(xs)>> \o sorted_insert(Tail(xs), v)

RECURSIVE sorted_list(_)
sorted_list(xs) ==
    IF xs = <<>> THEN <<>>
    ELSE sorted_insert(sorted_list(SubSeq(xs, 1, Len(xs) - 1)), xs[Len(xs)])

\* a sorted that sorts when the stage is first pulled
sorted_lazy(cs) == [Staged(cs, "sorted") EXCEPT !.stage.at = cs.pos]

\* Stream(sorted(self.it))  (at keeps where the cursor stood when sorted was
\* called)
sorted(cs) ==
    LET d == sorted_drain(cs, <<>>) IN
    [Staged(d.cs, "sorted") EXCEPT !.stage.inner = sorted_list(d.acc),
                                  !.stage.at = cs.pos]

\* ---- terminal operations ------------------------------------------------
Ok(v) == [tag |-> "ok", val |-> v]
Raise(what) == [tag |-> "raise", val |-> what]

\* list(self.it)
RECURSIVE to_list_loop(_, _, _)
to_list_loop(h, cs, acc) ==
    LET r == Stream_next(h, cs) IN
    CASE r.out.tag = "val" -> to_list_loop(h, r.cs, Append(acc, r.out.v))
      [] r.out.tag = "stop" -> [cs |-> r.cs, res |-> Ok(acc)]
      [] OTHER -> [cs |-> r.cs, res |-> Raise("RuntimeError")]

\* a to_list that lists the values the stream was built from, from the start
to_list_from_start(h, cs) ==
    to_list_loop(h, [cs EXCEPT !.pos = 0, !.posB = 0], <<>>)

to_list(h, cs) == to_list_loop(h, cs, <<>>)

\* any([predicate(x) for x in self.it]): the list is built before any() runs
any_match_list_first(h, cs, p) ==
    LET r == to_list_loop(h, cs, <<>>) IN
    IF r.res.tag = "ok"
    THEN [cs |-> r.cs,
          res |-> Ok(\E j \in 1..Len(r.res.val) : r.res.val[j] \in p)]
    ELSE r

\* any(predicate(x) for x in self.it)
RECURSIVE any_match(_, _, _)
any_match(h, cs, p) ==
    LET r == Stream_next(h, cs) IN
    CASE r.out.tag = "val" ->
           LET c == Logged(r.cs, Ev("call", "match", r.out.i, r.out.v)) IN
           IF r.out.v \in p THEN [cs |-> c, res |-> Ok(TRUE)]
           ELSE any_match(h, c, p)
      [] r.out.tag = "stop" -> [cs |-> r.cs, res |-> Ok(FALSE)]
      [] OTHER -> [cs |-> r.cs, res |-> Raise("RuntimeError")]

\* all(predicate(x) for x in self.it)
RECURSIVE all_match(_, _, _)
all_match(h, cs, p) ==
    LET r == Stream_next(h, cs) IN
    CASE r.out.tag = "val" ->
           LET c == Logged(r.cs, Ev("call", "match", r.out.i, r.out.v)) IN
           IF r.out.v \notin p THEN [cs |-> c, res |-> Ok(FALSE)]
           ELSE all_match(h, c, p)
      [] r.out.tag = "stop" -> [cs |-> r.cs, res |-> Ok(TRUE)]
      [] OTHER -> [cs |-> r.cs, res |-> Raise("RuntimeError")]

\* Python's None, as an element and as what next(self.it, None), reduce and
\* reducing return for "no value"; it is no number that arithmetic accepts.
None == -1

\* the value domain of streams that may hold None
ValuesN == Values \cup {None}
BSeqN(n) == UNION {[1..k -> ValuesN] : k \in 0..n}

\* the binary operators handed to reduce: lin is lambda a, b: 2 * a + b
Ops == {"first", "second", "lin"}

OpApply(op, a, b) ==
    CASE op = "first" -> Ok(a)
      [] op = "second" -> Ok(b)
      [] OTHER -> IF a = None \/ b = None THEN Raise("TypeError")
                  ELSE Ok(2 * a + b)

\* a get_one that takes the first element of list(self.it)
get_one_drain(h, cs) ==
    LET r == to_list_loop(h, cs, <<>>) IN
    IF r.res.tag # "ok" THEN r
    ELSE [cs |-> r.cs,
          res |-> Ok(IF r.res.val = <<>> THEN None ELSE Head(r.res.val))]

\* get_one: next(self.it, None)
get_one(h, cs) ==
    LET r == Stream_next(h, cs) IN
    CASE r.out.tag = "val" -> [cs |-> r.cs, res |-> Ok(r.out.v)]
      [] r.out.tag = "stop" -> [cs |-> r.cs, res |-> Ok(None)]
      [] OTHER -> [cs |-> r.cs, res |-> Raise("RuntimeError")]

\* find_any of the first revision: next(self.it, None)
find_any(h, cs) ==
    LET r == Stream_next(h, cs) IN
    CASE r.out.tag = "val" -> [cs |-> r.cs, res |-> Ok(r.out.v)]
      [] r.out.tag = "stop" -> [cs |-> r.cs, res |-> Ok(None)]
      [] OTHER -> [cs |-> r.cs, res |-> Raise("RuntimeError")]

\* find_first of the first revision: next(self.it, None)
find_first(h, cs) ==
    LET r == Stream_next(h, cs) IN
    CASE r.out.tag = "val" -> [cs |-> r.cs, res |-> Ok(r.out.v)]
      [] r.out.tag = "stop" -> [cs |-> r.cs, res |-> Ok(None)]
      [] OTHER -> [cs |-> r.cs, res |-> Raise("RuntimeError")]

\* a fold whose loop body is  identity = accumulator(v, identity)
RECURSIVE reduce_from_swapped(_, _, _, _, _)
reduce_from_swapped(h, cs, has, result, op) ==
    LET r == Stream_next(h, cs) IN
    CASE r.out.tag = "val" ->
           IF ~has THEN reduce_from_swapped(h, r.cs, TRUE, r.out.v, op)
           ELSE LET o == OpApply(op, r.out.v, result) IN
                IF o.tag = "ok"
                THEN reduce_from_swapped(
                       h, Logged(r.cs, Ev("call", "op", r.out.v, result)),
                       TRUE, o.val, op)
                ELSE [cs |-> Logged(r.cs, Ev("call", "op", r.out.v, result)),
                      res |-> o]
      [] r.out.tag = "stop" ->
           [cs |-> r.cs, res |-> Ok(IF has THEN result ELSE None)]
      [] OTHER -> [cs |-> r.cs, res |-> Raise("RuntimeError")]

\* The pulls of reduce and reduce_identity.  Without a result yet (has is
\* FALSE) it is reduce at  result = next(self.it): the element becomes the
\* result, StopIteration returns None.  With one it is the loop of
\* reduce_identity:  for v in self.it: identity = accumulator(identity, v),
\* and  return identity  at StopIteration.
RECURSIVE reduce_from(_, _, _, _, _)
reduce_from(h, cs, has, result, op) ==
    LET r == Stream_next(h, cs) IN
    CASE r.out.tag = "val" ->
           IF ~has THEN reduce_from(h, r.cs, TRUE, r.out.v, op)
           ELSE LET o == OpApply(op, result, r.out.v) IN
                IF o.tag = "ok"
                THEN reduce_from(
                       h, Logged(r.cs, Ev("call", "op", result, r.out.v)),
                       TRUE, o.val, op)
                ELSE [cs |-> Logged(r.cs, Ev("call", "op", result, r.out.v)),
                      res |-> o]
      [] r.out.tag = "stop" ->
           [cs |-> r.cs, res |-> Ok(IF has THEN result ELSE None)]
      [] OTHER -> [cs |-> r.cs, res |-> Raise("RuntimeError")]

\* reduce_identity(identity, accumulator)
reduce_identity(h, cs, identity, op) == reduce_from(h, cs, TRUE, identity, op)

\* reduce(accumulator): the first element, or None at StopIteration, then
\* reduce_identity(result, accumulator)
reduce(h, cs, op) == reduce_from(h, cs, FALSE, None, op)

\* The builtins max and min over an iterator: the first item is the best so
\* far (any says there is one), every further item is compared with it, and
\* an iterator without items is ValueError.  None is not orderable.
RECURSIVE best_loop(_, _, _, _, _)
best_loop(h, cs, any, best, greater) ==
    LET r == Stream_next(h, cs) IN
    CASE r.out.tag = "val" ->
           IF ~any THEN best_loop(h, r.cs, TRUE, r.out.v, greater)
           ELSE IF best = None \/ r.out.v = None
           THEN [cs |-> r.cs, res |-> Raise("TypeError")]
           ELSE best_loop(h, r.cs, TRUE,
                          IF (greater /\ r.out.v > best)
                               \/ (~greater /\ r.out.v < best)
                          THEN r.out.v ELSE best,
                          greater)
      [] r.out.tag = "stop" ->
           [cs |-> r.cs, res |-> IF any THEN Ok(best) ELSE Raise("ValueError")]
      [] OTHER -> [cs |-> r.cs, res |-> Raise("RuntimeError")]

\* a max that is  max(self.it, default=None)
max_default_none(h, cs) ==
    LET r == best_loop(h, cs, FALSE, None, TRUE) IN
    IF r.res = Raise("ValueError") THEN [cs |-> r.cs, res |-> Ok(None)] ELSE r

\* max(self.it)
max(h, cs) == best_loop(h, cs, FALSE, None, TRUE)

\* min(self.it)
min(h, cs) == best_loop(h, cs, FALSE, None, FALSE)

\* ---- collectors ----------------------------------------------------------
Collectors ==
    {[kind |-> "to_list", k |-> "id", f |-> "id"]}
    \cup {[kind |-> "to_dict", k |-> k, f |-> f] : k \in KeyFns, f \in Mappers}

EmptyDict == [k \in {} |-> 0]

\* What a collector method returns or raises, with the calls it made.
Ret(v, ev) == [tag |-> "ok", val |-> v, ev |-> ev]
Fail(what, ev) == [tag |-> "raise", val |-> what, ev |-> ev]
WithEv(r, ev) == [tag |-> r.tag, val |-> r.val, ev |-> ev]

\* _NOTHING, the private object reducing starts its wrapper with: no element
NOTHING == -2

\* The collectors without a downstream.
to_list_collector == [kind |-> "to_list", k |-> "id", f |-> "id"]
reducing(op) == [kind |-> "reducing", op |-> op]
reducing_mapper(identity, mapper, op) ==
    [kind |-> "reducing_mapper", identity |-> identity, mapper |-> mapper,
     op |-> op]
reducing_identity(identity, op) == reducing_mapper(identity, "id", op)
partition(p) == [kind |-> "partition", predicate |-> p]

\* The collectors with a downstream.
mapping(m, d) == [kind |-> "mapping", mapper |-> m, downstream |-> d]
partition_downstream(p, d) ==
    [kind |-> "partition_downstream", predicate |-> p, downstream |-> d]

\* a supplier that hands out the result object of the collector's previous
\* reduction
supplier_kept(col) ==
    IF run.col = col THEN Ret(run.acc, <<>>)
    ELSE CASE col.kind = "to_list" -> Ret(<<>>, <<>>)
           [] col.kind = "reducing" -> Ret(NOTHING, <<>>)
           [] col.kind = "reducing_mapper" -> Ret(col.identity, <<>>)
           [] OTHER -> Ret(<<<<>>, <<>>>>, <<>>)

RECURSIVE supplier(_)
supplier(col) ==
    CASE col.kind = "to_list" -> Ret(<<>>, <<>>)
      [] col.kind = "to_dict" -> Ret(EmptyDict, <<>>)
      [] col.kind = "reducing" -> Ret(NOTHING, <<>>)
      [] col.kind = "reducing_mapper" -> Ret(col.identity, <<>>)
      [] col.kind = "mapping" ->
           LET d == supplier(col.downstream) IN
           Ret(d.val, <<Ev("call", "d.supplier", 0, 0)>> \o d.ev)
      [] col.kind \in {"partition", "partition_downstream"} ->
           Ret(<<<<>>, <<>>>>, <<>>)
      [] OTHER -> Ret(<<>>, <<>>)

\* to_list: result.append(value)
to_list_accumulator(acc, v) == Ok(Append(acc, v))

\* to_dict that keeps the last value of a key
to_dict_accumulator_overwrite(col, acc, v) ==
    Ok([x \in DOMAIN acc \cup {Apply(col.k, v)} |->
          IF x = Apply(col.k, v) THEN Apply(col.f, v) ELSE acc[x]])

\* to_dict: a key already in the result raises ValueError('duplicate key')
to_dict_accumulator(col, acc, v) ==
    LET key == Apply(col.k, v) IN
    IF key \in DOMAIN acc THEN Raise("ValueError")
    ELSE Ok([x \in DOMAIN acc \cup {key} |->
               IF x = key THEN Apply(col.f, v) ELSE acc[x]])

\* a reducing that takes None, too, for "no element yet"
reducing_accumulator_none(col, acc, v) ==
    IF acc = NOTHING \/ acc = None THEN Ret(v, <<>>)
    ELSE WithEv(OpApply(col.op, acc, v), <<Ev("call", "op", acc, v)>>)

\* reducing: the first value is kept, every later one goes through op
reducing_accumulator(col, acc, v) ==
    IF acc = NOTHING THEN Ret(v, <<>>)
    ELSE WithEv(OpApply(col.op, acc, v), <<Ev("call", "op", acc, v)>>)

\* reducing_mapper: result.value = self.op(result.value, self.mapper(value))
reducing_mapper_accumulator(col, acc, v) ==
    LET mv == Apply(col.mapper, v) IN
    WithEv(OpApply(col.op, acc, mv),
           <<Ev("call", "mapper", 0, v), Ev("call", "op", acc, mv)>>)

\* a partition that files the elements satisfying the predicate first
partition_accumulator_swapped(col, acc, v) ==
    Ret([acc EXCEPT ![IF v \in col.predicate THEN 1 ELSE 2] = Append(@, v)],
        <<Ev("call", "predicate", 0, v)>>)

\* partition: result[self.predicate(value)].append(value); False is index 0
\* of the pair (here 1), True is index 1 (here 2)
partition_accumulator(col, acc, v) ==
    Ret([acc EXCEPT ![IF v \in col.predicate THEN 2 ELSE 1] = Append(@, v)],
        <<Ev("call", "predicate", 0, v)>>)

RECURSIVE accumulator(_, _, _)

\* a mapping that hands the element itself to the downstream
mapping_accumulator_unmapped(col, acc, v) ==
    LET d == accumulator(col.downstream, acc, v) IN
    WithEv(d, <<Ev("call", "d.accumulator", 0, v)>> \o d.ev)

\* mapping: self.downstream.accumulator(result, self.mapper(value))
mapping_accumulator(col, acc, v) ==
    LET mv == Apply(col.mapper, v)
        d == accumulator(col.downstream, acc, mv) IN
    WithEv(d, <<Ev("call", "mapper", 0, v),
                Ev("call", "d.accumulator", 0, mv)>> \o d.ev)

accumulator(col, acc, v) ==
    CASE col.kind = "to_list" -> WithEv(to_list_accumulator(acc, v), <<>>)
      [] col.kind = "to_dict" -> WithEv(to_dict_accumulator(col, acc, v), <<>>)
      [] col.kind = "reducing" -> reducing_accumulator(col, acc, v)
      [] col.kind = "reducing_mapper" -> reducing_mapper_accumulator(col, acc, v)
      [] col.kind = "mapping" -> mapping_accumulator(col, acc, v)
      [] col.kind \in {"partition", "partition_downstream"} ->
           partition_accumulator(col, acc, v)
      [] OTHER -> Ret(acc, <<>>)

RECURSIVE finisher(_, _)
RECURSIVE collect_loop(_, _, _, _)

\* Stream(values).collect(collector), as a collector's finisher calls it on
\* a list it holds
collect_of(values, col) ==
    LET s == supplier(col) IN
    collect_loop(values, col, s.val, <<Ev("call", "d.supplier", 0, 0)>> \o s.ev)

collect_loop(values, col, acc, ev) ==
    IF values = <<>>
    THEN LET f == finisher(col, acc) IN
         WithEv(f, ev \o <<Ev("call", "d.finisher", 0, 0)>> \o f.ev)
    ELSE LET a == accumulator(col, acc, Head(values))
             e == ev \o <<Ev("call", "d.accumulator", 0, Head(values))>>
                     \o a.ev IN
         IF a.tag = "ok" THEN collect_loop(Tail(values), col, a.val, e)
         ELSE Fail(a.val, e)

\* reducing: None for the untouched wrapper, else its value
reducing_finisher(acc) == Ret(IF acc = NOTHING THEN None ELSE acc, <<>>)

\* partition_downstream: each bucket collected with the downstream, the
\* bucket of False first
partition_downstream_finisher(col, acc) ==
    LET x == collect_of(acc[1], col.downstream) IN
    IF x.tag # "ok" THEN x
    ELSE LET y == collect_of(acc[2], col.downstream) IN
         IF y.tag # "ok" THEN Fail(y.val, x.ev \o y.ev)
         ELSE Ret(<<x.val, y.val>>, x.ev \o y.ev)

finisher(col, acc) ==
    CASE col.kind = "reducing" -> reducing_finisher(acc)
      [] col.kind = "mapping" ->
           LET d == finisher(col.downstream, acc) IN
           WithEv(d, <<Ev("call", "d.finisher", 0, 0)>> \o d.ev)
      [] col.kind = "partition_downstream" ->
           partition_downstream_finisher(col, acc)
      [] OTHER -> Ret(acc, <<>>)

\* ---- the state machine ------------------------------------------------------
NoCall == [op |-> "none", h |-> "a", arg |-> {}, tag |-> "ok", val |-> 0,
           pos0 |-> 0, posB0 |-> 0, log0 |-> 0, stage0 |-> NoStage,
           again |-> FALSE]

Idle == [pc |-> "idle", h |-> "a", col |-> [kind |-> "none", k |-> "id", f |-> "id"],
         acc |-> <<>>, log0 |-> 0, pos0 |-> 0]

\* What the caller saw of its last operation, and the state it started in.
Call(op, h, arg, tag, val) ==
    [op |-> op, h |-> h, arg |-> arg, tag |-> tag, val |-> val,
     pos0 |-> pos, posB0 |-> posB, log0 |-> Len(log), stage0 |-> stage,
     again |-> h \in listed]

Commit(cs) ==
    /\ gen' = cs.gen
    /\ pos' = cs.pos
    /\ posB' = cs.posB
    /\ stage' = cs.stage
    /\ log' = cs.log

Usable(h) == h = "stage" => stage.kind # "none"

InitWith(A, B) ==
    /\ src \in A
    /\ srcB \in B
    /\ pos = 0
    /\ posB = 0
    /\ stage = NoStage
    /\ log = <<>>
    /\ last = NoCall
    /\ nops = 0
    /\ listed = {}
    /\ run = Idle
    /\ gen = NoGen

Init == InitWith(BSeq(MaxLen), {<<>>})

InitConcat == InitWith(BSeq(MaxLen), BSeq(MaxLen - 1))

\* Stream.of(*values) with values that may be None
InitNone == InitWith(BSeqN(MaxLen), {<<>>})

Derive(op, arg, cs) ==
    /\ stage.kind = "none"
    /\ run.pc = "idle"
    /\ Commit(cs)
    /\ last' = Call(op, "a", arg, "ok", 0)
    /\ UNCHANGED <<src, srcB, nops, listed, run>>

Call_filter == \E p \in Preds : Derive("filter", p, filter(CS, p))

Call_map == \E f \in Mappers : Derive("map", f, map(CS, f))

Call_flat_map == \E m \in FlatMappers : Derive("flat_map", m, flat_map(CS, m))

Call_peek == Derive("peek", 0, peek(CS))

Call_limit == \E n \in 0..MaxLen : Derive("limit", n, limit(CS, n))

Call_skip == \E n \in 0..MaxLen : Derive("skip", n, skip(CS, n))

Call_concat == Derive("concat", 0, concat(CS))

Call_sorted == Derive("sorted", 0, sorted(CS))

\* next(stream) by the caller
Call_next(h, cap) ==
    /\ run.pc = "idle"
    /\ nops < cap
    /\ Usable(h)
    /\ LET r == Stream_next(h, CS) IN
         /\ Commit(r.cs)
         /\ last' = Call("next", h, 0, r.out.tag, r.out.v)
    /\ nops' = nops + 1
    /\ UNCHANGED <<src, srcB, listed, run>>

Terminal(op, h, arg, r) ==
    /\ run.pc = "idle"
    /\ nops < MaxOps
    /\ Usable(h)
    /\ Commit(r.cs)
    /\ last' = Call(op, h, arg, r.res.tag, r.res.val)
    /\ nops' = nops + 1
    /\ listed' = IF op = "to_list" /\ r.res.tag = "ok"
                 THEN listed \cup {h} ELSE listed
    /\ UNCHANGED <<src, srcB, run>>

Call_to_list(h) == Terminal("to_list", h, 0, to_list(h, CS))

Call_any_match(h) ==
    \E p \in Preds : Terminal("any_match", h, p, any_match(h, CS, p))

Call_all_match(h) ==
    \E p \in Preds : Terminal("all_match", h, p, all_match(h, CS, p))

Call_get_one(h) == Terminal("get_one", h, 0, get_one(h, CS))

Call_find_any(h) == Terminal("find_any", h, 0, find_any(h, CS))

Call_find_first(h) == Terminal("find_first", h, 0, find_first(h, CS))

Call_reduce(h) == \E op \in Ops : Terminal("reduce", h, op, reduce(h, CS, op))

Call_reduce_identity(h) ==
    \E op \in Ops, identity \in ValuesN :
      Terminal("reduce_identity", h, <<identity, op>>,
               reduce_identity(h, CS, identity, op))

Call_max(h) == Terminal("max", h, 0, max(h, CS))

Call_min(h) == Terminal("min", h, 0, min(h, CS))

\* collect: result = collector.supplier()
\* (again says that the collector is the one of the collect before)
collect_with(h, col) ==
    /\ run.pc = "idle"
    /\ nops < MaxOps
    /\ Usable(h)
    /\ LET s == supplier(col) IN
         /\ run' = [pc |-> "loop", h |-> h, col |-> col, acc |-> s.val,
                    log0 |-> Len(log), pos0 |-> pos]
         /\ log' = Append(log, Ev("call", "supplier", 0, 0)) \o s.ev
         /\ last' = [Call("collect", h, col, "running", 0)
                       EXCEPT !.again = (run.col = col)]
    /\ nops' = nops + 1
    /\ UNCHANGED <<src, srcB, pos, posB, stage, listed, gen>>

collect_begin(h) == \E col \in Collectors : collect_with(h, col)

\* collect with  return collector.finisher(result)  indented into the loop:
\* it returns after the first element, and returns nothing on an empty stream
collect_step_return_in_loop ==
    /\ run.pc = "loop"
    /\ LET r == Stream_next(run.h, CS) IN
         CASE r.out.tag = "val" ->
                LET a == accumulator(run.col, run.acc, r.out.v) IN
                /\ run' = [run EXCEPT !.pc = "idle"]
                /\ IF a.tag = "ok"
                   THEN /\ Commit(Logged(Logged(r.cs,
                                  Ev("call", "accumulator", r.out.i, r.out.v)),
                                  Ev("call", "finisher", 0, 0)))
                        /\ last' = [last EXCEPT !.tag = "ok",
                                       !.val = finisher(run.col, a.val).val]
                   ELSE /\ Commit(Logged(r.cs,
                                  Ev("call", "accumulator", r.out.i, r.out.v)))
                        /\ last' = [last EXCEPT !.tag = "raise", !.val = a.val]
           [] r.out.tag = "stop" ->
                /\ Commit(r.cs)
                /\ run' = [run EXCEPT !.pc = "idle"]
                /\ last' = [last EXCEPT !.tag = "ok", !.val = <<>>]
           [] OTHER ->
                /\ Commit(r.cs)
                /\ run' = [run EXCEPT !.pc = "idle"]
                /\ last' = [last EXCEPT !.tag = "raise", !.val = "RuntimeError"]
    /\ UNCHANGED <<src, srcB, nops, listed>>

\* collect: one turn of  for value in self.it: collector.accumulator(result, value)
collect_step ==
    /\ run.pc = "loop"
    /\ LET r == Stream_next(run.h, CS) IN
         CASE r.out.tag = "val" ->
                LET a == accumulator(run.col, run.acc, r.out.v)
                    c == Logged(r.cs, Ev("call", "accumulator", r.out.i, r.out.v)) IN
                /\ Commit([c EXCEPT !.log = @ \o a.ev])
                /\ IF a.tag = "ok"
                   THEN /\ run' = [run EXCEPT !.acc = a.val]
                        /\ last' = last
                   ELSE /\ run' = [run EXCEPT !.pc = "idle"]
                        /\ last' = [last EXCEPT !.tag = "raise", !.val = a.val]
           [] r.out.tag = "stop" ->
                /\ Commit(r.cs)
                /\ run' = [run EXCEPT !.pc = "finish"]
                /\ last' = last
           [] OTHER ->
                /\ Commit(r.cs)
                /\ run' = [run EXCEPT !.pc = "idle"]
                /\ last' = [last EXCEPT !.tag = "raise", !.val = "RuntimeError"]
    /\ UNCHANGED <<src, srcB, nops, listed>>

\* collect: return collector.finisher(result)
collect_finish ==
    /\ run.pc = "finish"
    /\ LET f == finisher(run.col, run.acc) IN
         /\ log' = Append(log, Ev("call", "finisher", 0, 0)) \o f.ev
         /\ last' = [last EXCEPT !.tag = f.tag, !.val = f.val]
    /\ run' = [run EXCEPT !.pc = "idle"]
    /\ UNCHANGED <<src, srcB, pos, posB, stage, nops, listed, gen>>

\* The handle a correct caller still uses: the most derived stream.
Top == IF stage.kind = "none" THEN "a" ELSE "stage"

Create ==
    \/ Call_filter
    \/ Call_map
    \/ Call_flat_map
    \/ Call_peek
    \/ Call_limit
    \/ Call_skip

\* Pulls through a stream and the stage derived from it, interleaved.
NextPull ==
    \/ Create
    \/ \E h \in {"a", "stage"} : Call_next(h, MaxPulls)

SpecPull == Init /\ [][NextPull]_vars

\* to_list, again and again, between pulls.
NextList ==
    \/ Create
    \/ \E h \in {"a", "stage"} : Call_next(h, MaxOps)
    \/ \E h \in {"a", "stage"} : Call_to_list(h)

SpecList == Init /\ [][NextList]_vars

\* concat(a, b), while a and b are still pulled directly.
NextConcat ==
    \/ Call_concat
    \/ \E h \in Handles : Call_next(h, MaxOps)
    \/ Call_to_list("stage")

SpecConcat == InitConcat /\ [][NextConcat]_vars

\* any_match and all_match.
NextMatch ==
    \/ Create
    \/ Call_next(Top, MaxOps)
    \/ Call_any_match(Top)
    \/ Call_all_match(Top)

SpecMatch == Init /\ [][NextMatch]_vars

\* collect, step by step.
NextCollect ==
    \/ Call_limit
    \/ Call_map
    \/ Call_next("a", MaxOps)
    \/ collect_begin(Top)
    \/ collect_step
    \/ collect_finish

SpecCollect == Init /\ [][NextCollect]_vars

\* ---- reading the log ----------------------------------------------------------
\* The events of the caller's last operation.
Since == SubSeq(log, last.log0 + 1, Len(log))

IsGot(e) == e.e = "got"
IsErr(e) == e.e = "err"
IsHandleEv(e) == e.e \in {"got", "stop", "err"}
IsCallOf(e, f) == e.e = "call" /\ e.who = f
IsSupplier(e) == IsCallOf(e, "supplier")
IsAccumulator(e) == IsCallOf(e, "accumulator")
IsFinisher(e) == IsCallOf(e, "finisher")

Elem(e) == <<e.i, e.v>>
Elems(s) == [j \in 1..Len(s) |-> Elem(s[j])]
Vals(s) == [j \in 1..Len(s) |-> s[j].v]

\* The elements of a the cursor had not produced when the last operation began.
RestA0 == SubSeq(src, last.pos0 + 1, Len(src))
RestB0 == SubSeq(srcB, last.posB0 + 1, Len(srcB))

\* ---- C1 -------------------------------------------------------------------
\* C1: one collect(collector) calls supplier() exactly once and first, then
\* accumulator once per element pulled, in cursor order and right after the
\* element is pulled, then finisher exactly once, only after the cursor has
\* signalled exhaustion and as the last call; what finisher returns is what
\* collect returns, and on stream a the elements accumulated are all that
\* remained.
C1_CollectProtocol ==
    last.op = "collect" =>
      LET L == Since
          G == SelectSeq(L, IsGot)
          A == SelectSeq(L, IsAccumulator)
          F == SelectSeq(L, IsFinisher) IN
      /\ Len(SelectSeq(L, IsSupplier)) = 1
      /\ IsSupplier(L[1])
      /\ Elems(A) = Elems(G)
      /\ \A j \in 2..Len(L) : IsAccumulator(L[j]) <=> IsGot(L[j - 1])
      /\ Len(F) <= 1
      /\ Len(F) = 1 <=> last.tag = "ok"
      /\ last.tag = "running" <=> run.pc # "idle"
      /\ \A j \in 1..Len(L) : IsFinisher(L[j]) =>
            /\ j = Len(L)
            /\ L[j - 1].e = "stop" /\ L[j - 1].who = last.h
      /\ last.tag = "ok" =>
            /\ last.arg.kind = "to_list" => last.val = Vals(G)
            /\ last.h = "a" => (Vals(A) = RestA0 /\ pos = Len(src))
      /\ (run.pc = "idle" /\ last.tag = "raise" /\ last.val = "RuntimeError")
            => \E j \in 1..Len(L) : IsErr(L[j])

C1_Witness ==
    /\ last.op = "collect"
    /\ last.tag = "ok"
    /\ last.pos0 >= 1
    /\ Len(SelectSeq(Since, IsAccumulator)) >= 2

\* ---- C6 -------------------------------------------------------------------
KeyOf(v) == Apply(last.arg.k, v)
ValueOf(v) == Apply(last.arg.f, v)

\* The element at j of g has the key of an earlier element of g.
DupAt(g, j) == \E i \in 1..(j - 1) : KeyOf(g[i]) = KeyOf(g[j])

\* C6: collect(to_dict(key_fn, value_fn)) raises the duplicate-key error in
\* the accumulation step of the first element whose key an earlier element
\* had: nothing is pulled or accumulated after it, finisher is not called, no
\* mapping is returned and every key still holds the value of the first
\* element that had it.  When the keys are all distinct and the cursor does
\* not fail, it returns the mapping key_fn(x) -> value_fn(x) of the elements.
C6_ToDictDuplicateKey ==
    (last.op = "collect" /\ last.arg.kind = "to_dict") =>
      LET L == Since
          G == Vals(SelectSeq(L, IsGot))
          First(k) == CHOOSE j \in 1..Len(G) :
                        /\ KeyOf(G[j]) = k
                        /\ \A i \in 1..(j - 1) : KeyOf(G[i]) # k IN
      /\ \A j \in 1..Len(G) : DupAt(G, j) =>
            /\ j = Len(G)
            /\ IsAccumulator(L[Len(L)])
            /\ run.pc = "idle"
            /\ last.tag = "raise" /\ last.val = "ValueError"
            /\ SelectSeq(L, IsFinisher) = <<>>
      /\ (last.tag = "raise" /\ last.val = "ValueError") => DupAt(G, Len(G))
      /\ DOMAIN run.acc \subseteq {KeyOf(G[j]) : j \in 1..Len(G)}
      /\ \A k \in DOMAIN run.acc : run.acc[k] = ValueOf(G[First(k)])
      /\ (/\ run.pc = "idle"
          /\ \A j \in 1..Len(G) : ~DupAt(G, j)
          /\ \A j \in 1..Len(L) : ~IsErr(L[j]))
            => /\ last.tag = "ok"
               /\ DOMAIN last.val = {KeyOf(G[j]) : j \in 1..Len(G)}
               /\ \A j \in 1..Len(G) : last.val[KeyOf(G[j])] = ValueOf(G[j])
               /\ last.h = "a" => G = RestA0

C6_Witness ==
    /\ last.op = "collect"
    /\ last.arg.kind = "to_dict"
    /\ last.tag = "raise"
    /\ last.val = "ValueError"
    /\ pos < Len(src)
    /\ run.acc[KeyOf(src[pos])] # ValueOf(src[pos])

\* ---- C2 -------------------------------------------------------------------
\* C2: to_list() on a new limit(n) stage with n greater than the number k of
\* remaining elements returns exactly the k remaining elements in order, and
\* does not end in an error; on a new limit(0) stage it returns nothing.
C2_LimitBeyondEnd ==
    (/\ last.op = "to_list"
     /\ last.h = "stage"
     /\ last.stage0.kind = "limit"
     /\ last.stage0.cnt = 0
     /\ ~last.stage0.done) =>
      /\ last.stage0.n > Len(RestA0) =>
            (last.tag = "ok" /\ last.val = RestA0)
      /\ last.stage0.n = 0 => (last.tag = "ok" /\ last.val = <<>>)

\* ---- C4 -------------------------------------------------------------------
\* C4: a to_list() on a stream on which an earlier to_list() has returned
\* returns the empty sequence and does not fail.
C4_ToListAgainEmpty ==
    (last.op = "to_list" /\ last.again) =>
      (last.tag = "ok" /\ last.val = <<>>)

C4_Witness ==
    /\ last.op = "to_list"
    /\ last.again
    /\ Len(src) >= 2
    /\ \E j \in 1..last.log0 : IsGot(log[j]) /\ log[j].who = last.h

\* ---- C3 -------------------------------------------------------------------
IsSrcA(e) == e.e = "src" /\ e.who = "a"
IsGotBy(e, h) == e.e = "got" /\ e.who = h
IsGotA(e) == IsGotBy(e, "a")
IsGotStage(e) == IsGotBy(e, "stage")
IsStageErr(e) == e.e = "err" /\ e.who = "stage"
IsStageStop(e) == e.e = "stop" /\ e.who = "stage"

Some(Test(_)) == \E j \in 1..Len(log) : Test(log[j])

\* C3: a limit(n) stage that never found its upstream short has advanced the
\* upstream cursor by exactly one element per element it delivered, at most
\* n; once it has reported exhaustion it has advanced it by exactly n, the
\* pull that reported exhaustion included, and the next element the upstream
\* cursor produces is the one after those n.
C3_LimitAdvancesExactlyN ==
    (stage.kind = "limit" /\ ~Some(IsStageErr)) =>
      LET direct == Len(SelectSeq(log, IsGotA))
          through == Len(SelectSeq(log, IsGotStage)) IN
      /\ through = stage.cnt
      /\ through <= stage.n
      /\ pos = direct + through
      /\ Some(IsStageStop) => (through = stage.n /\ pos = direct + stage.n)
      /\ (/\ last.op = "next" /\ last.h = "a" /\ last.tag = "val"
          /\ last.stage0.kind = "limit" /\ last.stage0.done
          /\ direct = 1)
            => last.val = src[stage.n + 1]

C3_Witness ==
    /\ stage.kind = "limit"
    /\ stage.n >= 1
    /\ ~Some(IsStageErr)
    /\ Some(IsStageStop)
    /\ last.op = "next" /\ last.h = "a" /\ last.tag = "val"
    /\ last.stage0.done
    /\ Len(SelectSeq(log, IsGotA)) = 1

\* ---- C5 -------------------------------------------------------------------
OneToOne == stage.kind \in {"none", "filter", "map", "peek", "skip", "limit"}

\* C5: whatever the order of the pulls through a stream and through the stage
\* derived from it, the source cursor produces its elements in increasing
\* position, each at most once; the elements delivered, through either
\* handle, are in increasing position too, and each delivered element is the
\* one the cursor produced last.
C5_EachElementOnce ==
    /\ \A j, k \in 1..Len(log) :
         (j < k /\ IsSrcA(log[j]) /\ IsSrcA(log[k])) => log[j].i < log[k].i
    /\ OneToOne =>
         /\ \A j, k \in 1..Len(log) :
              (j < k /\ IsGot(log[j]) /\ IsGot(log[k])) => log[j].i < log[k].i
         /\ \A k \in 1..Len(log) : IsGot(log[k]) =>
              \E j \in 1..(k - 1) :
                 /\ IsSrcA(log[j]) /\ log[j].i = log[k].i
                 /\ \A m \in (j + 1)..(k - 1) : ~IsSrcA(log[m])
    /\ pos = Len(SelectSeq(log, IsSrcA))

C5_Witness ==
    /\ stage.kind = "map"
    /\ \E j, k, m \in 1..Len(log) :
         /\ j < k /\ k < m
         /\ IsGotStage(log[j]) /\ IsGotA(log[k]) /\ IsGotStage(log[m])

\* ---- C7 -------------------------------------------------------------------
IsFnCall(e) == e.e = "call" /\ e.who \in {"predicate", "mapper", "action"}

\* C7: creating a filter, map, flat_map or peek stage pulls nothing from the
\* upstream cursor and calls no function; every call of the predicate, the
\* mapper or the action is made within a pull of the new stage.
C7_StageCreationLazy ==
    /\ last.op \in {"filter", "map", "flat_map", "peek"} =>
         (pos = last.pos0 /\ Len(log) = last.log0)
    /\ \A j \in 1..Len(log) : IsFnCall(log[j]) =>
         \E k \in (j + 1)..Len(log) :
            /\ IsHandleEv(log[k]) /\ log[k].who = "stage"
            /\ \A m \in (j + 1)..(k - 1) : ~IsHandleEv(log[m])

C7_Witness ==
    /\ last.op = "peek"
    /\ last.pos0 >= 1
    /\ pos < Len(src)

\* ---- C8 -------------------------------------------------------------------
IsAction(e) == IsCallOf(e, "action")
IsActionOrGotStage(e) == IsAction(e) \/ IsGotStage(e)

\* C8: when m elements have been pulled from a peek stage, the action has
\* been called m times: once on each element delivered, and on no other;
\* each call comes after the previous element was delivered and before its
\* own element is; the elements are delivered as the cursor produced them,
\* and they are the elements the cursor produced that were not pulled
\* directly.
C8_PeekOncePerElement ==
    stage.kind = "peek" =>
      LET M == SelectSeq(log, IsActionOrGotStage)
          A == SelectSeq(log, IsAction)
          G == SelectSeq(log, IsGotStage)
          D == SelectSeq(log, IsGotA) IN
      /\ Len(A) = Len(G)
      /\ \A j \in 1..Len(M) :
           IF j % 2 = 1 THEN IsAction(M[j])
           ELSE IsGotStage(M[j]) /\ Elem(M[j]) = Elem(M[j - 1])
      /\ \A j \in 1..Len(G) : G[j].v = src[G[j].i]
      /\ \A j \in 1..(Len(A) - 1) : A[j].i < A[j + 1].i
      /\ {A[j].i : j \in 1..Len(A)} =
           (1..pos) \ {D[j].i : j \in 1..Len(D)}

C8_Witness ==
    /\ stage.kind = "peek"
    /\ Len(SelectSeq(log, IsGotStage)) >= 2
    /\ Some(IsGotA)

\* ---- C9 -------------------------------------------------------------------
IsSrcB(e) == e.e = "src" /\ e.who = "b"
IsStopA(e) == e.e = "srcstop" /\ e.who = "a"

\* The event at j of the log happened within a pull of the stage.
InStagePull(j) ==
    \E k \in j..Len(log) :
       /\ IsHandleEv(log[k]) /\ log[k].who = "stage"
       /\ \A m \in j..(k - 1) : ~IsHandleEv(log[m])

\* C9: concat(a, b) pulls an element from b's cursor only after a's cursor
\* has signalled exhaustion, delivers nothing of a after something of b, and
\* its to_list() is what remained of a followed by what remained of b.
C9_ConcatAThenB ==
    /\ \A j \in 1..Len(log) : (IsSrcB(log[j]) /\ InStagePull(j)) =>
         \E m \in 1..(j - 1) : IsStopA(log[m])
    /\ \A j, k \in 2..Len(log) :
         (j < k /\ IsGotStage(log[j]) /\ IsGotStage(log[k]))
            => ~(IsSrcB(log[j - 1]) /\ IsSrcA(log[k - 1]))
    /\ (last.op = "to_list" /\ last.h = "stage") =>
         (last.tag = "ok" /\ last.val = RestA0 \o RestB0)

C9_Witness ==
    /\ last.op = "to_list"
    /\ last.h = "stage"
    /\ last.tag = "ok"
    /\ Len(RestA0) >= 2
    /\ Len(RestB0) >= 1
    /\ last.posB0 >= 1

\* ---- C10 ------------------------------------------------------------------
IsMatchCall(e) == IsCallOf(e, "match")

\* The value v settles the last any_match or all_match.
Decides(v) == IF last.op = "any_match" THEN v \in last.arg ELSE v \notin last.arg

\* C10: any_match(p) pulls up to and including the first element that
\* satisfies p, all_match(p) up to and including the first that fails p, and
\* tests each element pulled once.  When an element decides, the result is
\* true for any_match and false for all_match, exhaustion is not reached and
\* the source cursor stands right after the deciding element; when none
\* does, the stream has signalled exhaustion and the result is false for
\* any_match and true for all_match.
C10_MatchShortCircuit ==
    (last.op \in {"any_match", "all_match"}) =>
      LET L == Since
          G == SelectSeq(L, IsGot)
          n == Len(G) IN
      /\ last.tag = "ok" <=> \A j \in 1..Len(L) : ~IsErr(L[j])
      /\ Elems(SelectSeq(L, IsMatchCall)) = Elems(G)
      /\ \A j \in 1..(n - 1) : ~Decides(G[j].v)
      /\ last.h = "a" => (pos = last.pos0 + n /\ Vals(G) = SubSeq(src, last.pos0 + 1, pos))
      /\ last.tag = "ok" =>
           IF n > 0 /\ Decides(G[n].v)
           THEN /\ last.val = (last.op = "any_match")
                /\ \A j \in 1..Len(L) : L[j].e # "stop"
                /\ (last.h = "a" \/ OneToOne) => pos = G[n].i
           ELSE /\ last.val = (last.op = "all_match")
                /\ L[Len(L)].e = "stop" /\ L[Len(L)].who = last.h
                /\ last.h = "a" => pos = Len(src)

C10_Witness ==
    /\ last.op = "any_match"
    /\ last.tag = "ok"
    /\ last.val = TRUE
    /\ Len(SelectSeq(Since, IsGot)) >= 2
    /\ pos < Len(src)

\* ---- C11 ------------------------------------------------------------------
StepFns == {"inc", "dbl"}

\* Stream.iterate(seed, f): stream a is the generator, nothing pulled yet.
InitIterate ==
    /\ src = <<>>
    /\ srcB = <<>>
    /\ pos = 0
    /\ posB = 0
    /\ stage = NoStage
    /\ log = <<>>
    /\ last = NoCall
    /\ nops = 0
    /\ listed = {}
    /\ run = Idle
    /\ \E seed \in Values, f \in StepFns :
         gen = [on |-> TRUE, seed |-> seed, f |-> f, x |-> seed,
                started |-> FALSE]

\* iterate(seed, f).limit(n), pulled by hand and listed.  The iterate stream
\* itself is never listed: that does not return.
NextIterate ==
    \/ Call_limit
    \/ \E h \in {"a", "stage"} : Call_next(h, MaxPulls)
    \/ Call_to_list("stage")

SpecIterate == InitIterate /\ [][NextIterate]_vars

\* f applied k times to x.
RECURSIVE Iterated(_, _, _)
Iterated(f, x, k) == IF k = 0 THEN x ELSE Iterated(f, Apply(f, x), k - 1)

\* C11: to_list() of a limit(n) stage over iterate(seed, f) returns, without
\* an error, the list seed, f(seed), ..., f^(n-1)(seed) when nothing was
\* pulled before it; in general, after d elements were pulled from the
\* iterate stream and c of them through the stage, the n - c values
\* f^d(seed), f^(d+1)(seed), ...; it leaves the generator exactly that many
\* elements further, and f was called once per element after the first.
C11_IterateLimitToList ==
    (last.op = "to_list" /\ gen.on) =>
      LET d == last.pos0
          m == last.stage0.n - last.stage0.cnt IN
      /\ last.tag = "ok"
      /\ last.val = [j \in 1..m |-> Iterated(gen.f, gen.seed, d + j - 1)]
      /\ pos = d + m
      /\ Len(SelectSeq(log, LAMBDA e : e.e = "call" /\ e.who = "f"))
           = IF pos = 0 THEN 0 ELSE pos - 1

C11_Witness ==
    /\ last.op = "to_list" /\ gen.on
    /\ last.pos0 = 0
    /\ last.stage0.n = MaxLen
    /\ gen.f = "dbl"
    /\ Len(last.val) = MaxLen

\* ---- C14 ------------------------------------------------------------------
Min(x, y) == IF x <= y THEN x ELSE y
Max(x, y) == IF x >= y THEN x ELSE y

\* C14: skip(n) on a stream with k elements left never fails and leaves the
\* cursor min(n, k) elements further when it returns; what the stage it
\* returns delivers lies after the n skipped elements, and to_list() of the
\* untouched stage is the last max(k - n, 0) of the k elements in order: all
\* k when n = 0, none (the stage is exhausted at once) when k < n.
C14_SkipLastElements ==
    stage.kind = "skip" =>
      LET k == Len(src) - stage.at
          n == stage.n
          after == stage.at + Min(n, k)
          untouched == last.h = "stage" /\ last.pos0 = after IN
      /\ ~Some(IsErr)
      /\ pos >= after
      /\ last.op = "skip" => pos = after
      /\ \A j \in 1..Len(log) : IsGotStage(log[j]) => log[j].i > stage.at + n
      /\ (untouched /\ last.op = "to_list") =>
            /\ last.tag = "ok"
            /\ last.val = SubSeq(src, Len(src) - Max(k - n, 0) + 1, Len(src))
            /\ n = 0 => last.val = SubSeq(src, stage.at + 1, Len(src))
      /\ (untouched /\ last.op = "next") =>
            IF k <= n THEN last.tag = "stop"
            ELSE last.tag = "val" /\ last.val = src[stage.at + n + 1]

C14_Witness ==
    /\ stage.kind = "skip"
    /\ stage.at = 1
    /\ stage.n = 1
    /\ last.op = "to_list" /\ last.h = "stage" /\ last.pos0 = 2
    /\ Len(last.val) = MaxLen - 2
    /\ Len(src) = MaxLen

C14_WitnessShort ==
    /\ stage.kind = "skip"
    /\ Len(src) - stage.at < stage.n
    /\ Len(src) - stage.at > 0
    /\ last.op = "to_list" /\ last.h = "stage" /\ last.val = <<>>

\* ---- C15 .. C18 -----------------------------------------------------------
\* The terminal operations that return one value, after pulls by hand.
NextFind ==
    \/ Call_next("a", MaxOps)
    \/ Call_get_one("a")
    \/ Call_find_any("a")
    \/ Call_find_first("a")

SpecFind == InitNone /\ [][NextFind]_vars

NextReduce ==
    \/ Call_next("a", MaxOps)
    \/ Call_reduce("a")
    \/ Call_reduce_identity("a")

SpecReduce == InitNone /\ [][NextReduce]_vars

NextMax ==
    \/ Call_next("a", MaxOps)
    \/ Call_max("a")
    \/ Call_min("a")

SpecMax == InitNone /\ [][NextMax]_vars

IsOpCall(e) == IsCallOf(e, "op")
OpCalls == SelectSeq(Since, IsOpCall)
IsOne(op) == op \in {"get_one", "find_any", "find_first"}

\* The log ends with stream a signalling exhaustion to its caller.
ExhaustedA ==
    /\ pos = Len(src)
    /\ Len(log) > 0
    /\ log[Len(log)].e = "stop" /\ log[Len(log)].who = "a"

\* C15: on a stream with elements left, what get_one, find_any, find_first
\* and reduce return is never the value they return on an exhausted stream
\* (None).
C15_AbsentIsNoResult ==
    (/\ IsOne(last.op) \/ last.op = "reduce"
     /\ RestA0 # <<>>
     /\ last.tag = "ok")
      => last.val # None

\* C16: get_one, find_any and find_first return the first remaining element
\* and leave the cursor exactly one element further; on an exhausted stream
\* they return None, raise nothing and leave the cursor where it was.
C16_FindFirstAdvancesOne ==
    IsOne(last.op) =>
      /\ last.tag = "ok"
      /\ IF RestA0 # <<>>
         THEN /\ last.val = src[last.pos0 + 1]
              /\ pos = last.pos0 + 1
              /\ Vals(SelectSeq(Since, IsSrcA)) = <<last.val>>
         ELSE /\ last.val = None
              /\ pos = last.pos0
              /\ SelectSeq(Since, IsSrcA) = <<>>

C16_Witness ==
    /\ last.op = "find_first"
    /\ last.pos0 = 1
    /\ Len(src) = MaxLen
    /\ last.val = src[2]
    /\ src[2] # src[1] /\ src[2] # src[3]

C16_WitnessEmpty ==
    /\ last.op = "find_any"
    /\ last.pos0 = Len(src)
    /\ Len(src) > 0
    /\ last.val = None

\* The calls of the operator since the last operation began form a left fold
\* of xs from seed: call j gets the result of call j-1 (the seed for j = 1)
\* and the j-th element of xs, in this order.
LeftFold(seed, xs, op) ==
    /\ Len(OpCalls) <= Len(xs)
    /\ \A j \in 1..Len(OpCalls) :
         /\ OpCalls[j].v = xs[j]
         /\ OpCalls[j].i = IF j = 1 THEN seed
                           ELSE OpApply(op, OpCalls[j-1].i, OpCalls[j-1].v).val
    /\ IF last.tag = "ok"
       THEN /\ Len(OpCalls) = Len(xs)
            /\ last.val = IF xs = <<>> THEN seed
                          ELSE OpApply(op, OpCalls[Len(xs)].i,
                                       OpCalls[Len(xs)].v).val
            /\ ExhaustedA
       ELSE /\ last.val = "TypeError"
            /\ Len(OpCalls) > 0
            /\ OpApply(op, OpCalls[Len(OpCalls)].i,
                       OpCalls[Len(OpCalls)].v).tag = "raise"

\* C17: reduce(op) over the remaining elements x1..xk, k >= 1, is the left
\* fold of x2..xk from x1: op is called k-1 times, left to right, each time
\* with the result so far and the next element, and the last result is
\* returned (an operator that raises ends the fold there); over no elements
\* it returns None without calling op.  reduce_identity(identity, op) is the
\* left fold of x1..xk from identity, and returns identity unchanged, with no
\* call of op, over no elements.
C17_ReduceLeftFold ==
    /\ last.op = "reduce" =>
         IF RestA0 = <<>>
         THEN last.tag = "ok" /\ last.val = None /\ OpCalls = <<>>
         ELSE LeftFold(Head(RestA0), Tail(RestA0), last.arg)
    /\ last.op = "reduce_identity" =>
         /\ LeftFold(last.arg[1], RestA0, last.arg[2])
         /\ RestA0 = <<>> =>
              last.tag = "ok" /\ last.val = last.arg[1] /\ OpCalls = <<>>

C17_Witness ==
    /\ last.op = "reduce" /\ last.arg = "lin"
    /\ last.pos0 = 0
    /\ Len(src) = MaxLen
    /\ last.tag = "ok"
    /\ Len(OpCalls) = MaxLen - 1
    /\ last.val = 2 * (2 * src[1] + src[2]) + src[3]
    /\ last.val # 2 * (2 * src[3] + src[2]) + src[1]

C17_WitnessIdentity ==
    /\ last.op = "reduce_identity" /\ last.arg[2] = "lin"
    /\ last.pos0 = Len(src) /\ Len(src) > 0
    /\ last.val = last.arg[1]

\* C18: max() and min() over no remaining elements raise ValueError and
\* return nothing, the cursor left where it was; over remaining elements
\* that can be ordered they return the greatest / the least of them and
\* leave the cursor exhausted.  (Two or more elements with a None among them
\* cannot be ordered: TypeError.)
C18_MaxMinEmptyRaises ==
    last.op \in {"max", "min"} =>
      LET k == Len(RestA0)
          hasNone == \E j \in 1..k : RestA0[j] = None IN
      /\ k = 0 => (last.tag = "raise" /\ last.val = "ValueError"
                   /\ pos = last.pos0)
      /\ (k >= 1 /\ ~hasNone) =>
           /\ last.tag = "ok"
           /\ \E j \in 1..k : RestA0[j] = last.val
           /\ \A j \in 1..k : IF last.op = "max" THEN RestA0[j] <= last.val
                              ELSE RestA0[j] >= last.val
           /\ ExhaustedA
      /\ (k >= 2 /\ hasNone) => (last.tag = "raise" /\ last.val = "TypeError")
      /\ last.tag = "raise" => last.val \in {"ValueError", "TypeError"}

C18_Witness ==
    /\ last.op = "max"
    /\ last.pos0 = 0 /\ Len(src) = MaxLen
    /\ last.tag = "ok"
    /\ last.val = src[2] /\ src[1] < src[2] /\ src[3] < src[2]

C18_WitnessEmpty ==
    /\ last.op = "min"
    /\ last.pos0 = Len(src) /\ Len(src) > 0
    /\ last.tag = "raise" /\ last.val = "ValueError"

\* ---- C19 ------------------------------------------------------------------
\* collect with the reducing collectors, step by step, after pulls by hand.
NextReducing ==
    \/ Call_next("a", MaxOps)
    \/ \E op \in Ops : collect_with("a", reducing(op))
    \/ \E op \in Ops, identity \in ValuesN :
         collect_with("a", reducing_identity(identity, op))
    \/ collect_step
    \/ collect_finish

SpecReducing == InitNone /\ [][NextReducing]_vars

\* The last operation is a collect that has returned or raised.
Collected == last.op = "collect" /\ run.pc = "idle"

\* The cursors as they stood when the last operation began, with an empty log.
CS0 == [pos |-> last.pos0, posB |-> last.posB0, stage |-> last.stage0,
        log |-> <<>>, gen |-> gen]

\* r, what a terminal operation does from CS0, is what the last operation
\* did: the same result or error, the same calls of op, the same cursor.
SameAs(r) ==
    /\ last.tag = r.res.tag
    /\ last.val = r.res.val
    /\ OpCalls = SelectSeq(r.cs.log, IsOpCall)
    /\ pos = r.cs.pos

\* C19: collect(reducing(op)) does what reduce(op) does on the same stream:
\* the same result, None on an empty stream included, the same calls of op
\* with the same arguments, the same error, the cursor left at the same place,
\* also when elements or partial results are None.  collect(
\* reducing_identity(identity, op)) does what reduce_identity(identity, op)
\* does; on an empty stream it returns identity, and over values other than
\* None, with an identity other than None, it never returns None.
C19_ReducingIsReduce ==
    Collected =>
      /\ last.arg.kind = "reducing" =>
           SameAs(reduce("a", CS0, last.arg.op))
      /\ last.arg.kind = "reducing_mapper" =>
           /\ SameAs(reduce_identity("a", CS0, last.arg.identity, last.arg.op))
           /\ RestA0 = <<>> => (last.tag = "ok" /\ last.val = last.arg.identity)
           /\ (/\ last.tag = "ok"
               /\ last.arg.identity # None
               /\ \A j \in 1..Len(RestA0) : RestA0[j] # None)
                => last.val # None

C19_Witness ==
    /\ Collected
    /\ last.arg.kind = "reducing" /\ last.arg.op = "first"
    /\ Len(RestA0) = MaxLen
    /\ RestA0[1] = None /\ RestA0[2] # None
    /\ last.tag = "ok" /\ last.val = None
    /\ Len(OpCalls) = MaxLen - 1

C19_WitnessIdentity ==
    /\ Collected
    /\ last.arg.kind = "reducing_mapper" /\ last.arg.op = "lin"
    /\ Len(RestA0) = 2
    /\ last.tag = "ok"
    /\ last.val = 2 * (2 * last.arg.identity + RestA0[1]) + RestA0[2]

\* ---- C20 ------------------------------------------------------------------
\* The collectors handed to mapping and partition_downstream.
Downstreams ==
    {to_list_collector, [kind |-> "to_dict", k |-> "id", f |-> "inc"]}
    \cup {reducing(op) : op \in Ops}

\* collect(mapping(m, d)) on a stream, and collect(d) on its map stage.
NextMapping ==
    \/ Call_map
    \/ Call_next("a", MaxOps)
    \/ \E m \in Mappers, d \in Downstreams :
         stage.kind = "none" /\ collect_with("a", mapping(m, d))
    \/ \E d \in Downstreams : collect_with("stage", d)
    \/ collect_step
    \/ collect_finish

SpecMapping == Init /\ [][NextMapping]_vars

IsMapperCall(e) == IsCallOf(e, "mapper")
IsDownAccumulator(e) == IsCallOf(e, "d.accumulator")
IsMapperOrDown(e) == IsMapperCall(e) \/ IsDownAccumulator(e)
IsMapperOrAccumulator(e) == IsMapperCall(e) \/ IsAccumulator(e)
Count(Test(_)) == Len(SelectSeq(Since, Test))

\* What collecting the values m(x) for x in xs with d gives.
MappedThenCollected(m, d, xs) ==
    collect_of([j \in 1..Len(xs) |-> Apply(m, xs[j])], d)

\* Since the collect began, m was called on the remaining elements in cursor
\* order, once each, and each result went to the downstream accumulator
\* before the next element was mapped: calls is the calls of m and of that
\* accumulator, in the order of the log.
MapsThenAccumulates(m, calls) ==
    LET n == Len(calls) \div 2 IN
    /\ Len(calls) = 2 * n
    /\ n <= Len(RestA0)
    /\ last.tag = "ok" => n = Len(RestA0)
    /\ \A j \in 1..n :
         /\ IsMapperCall(calls[2 * j - 1]) /\ calls[2 * j - 1].v = RestA0[j]
         /\ ~IsMapperCall(calls[2 * j]) /\ calls[2 * j].v = Apply(m, RestA0[j])

\* C20: collect(mapping(m, d)) on a stream and collect(d) on its map(m) stage
\* return the same: what d collects from m(x1), ..., m(xk), or d's error.  In
\* both, m is called once per element in cursor order and d's accumulator
\* gets the mapped value before the next element is mapped; mapping calls
\* d's supplier once, when collect calls its own, and d's finisher once, when
\* collect calls its own, and returns what it returns.
C20_MappingIsMapThenCollect ==
    Collected =>
      /\ last.arg.kind = "mapping" =>
           LET r == MappedThenCollected(last.arg.mapper, last.arg.downstream,
                                        RestA0) IN
           /\ last.tag = r.tag
           /\ last.val = r.val
           /\ MapsThenAccumulates(last.arg.mapper,
                                  SelectSeq(Since, IsMapperOrDown))
           /\ Count(LAMBDA e : IsCallOf(e, "d.supplier")) = 1
           /\ Since[2] = Ev("call", "d.supplier", 0, 0)
           /\ Count(LAMBDA e : IsCallOf(e, "d.finisher"))
                = IF last.tag = "ok" THEN 1 ELSE 0
           /\ last.tag = "ok" => Since[Len(Since)] = Ev("call", "d.finisher", 0, 0)
      /\ (last.h = "stage" /\ last.stage0.kind = "map") =>
           LET r == MappedThenCollected(last.stage0.f, last.arg, RestA0) IN
           /\ last.tag = r.tag
           /\ last.val = r.val
           /\ MapsThenAccumulates(last.stage0.f,
                                  SelectSeq(Since, IsMapperOrAccumulator))
           /\ Count(IsSupplier) = 1
           /\ Count(IsFinisher) = IF last.tag = "ok" THEN 1 ELSE 0

C20_Witness ==
    /\ Collected
    /\ last.arg.kind = "mapping"
    /\ last.arg.mapper = "inc" /\ last.arg.downstream = reducing("lin")
    /\ last.pos0 = 0 /\ Len(src) = MaxLen
    /\ last.tag = "ok"
    /\ last.val = 2 * (2 * (src[1] + 1) + src[2] + 1) + src[3] + 1

C20_WitnessStage ==
    /\ Collected
    /\ last.h = "stage" /\ last.stage0.f = "inc" /\ last.arg = reducing("lin")
    /\ last.pos0 = 0 /\ Len(src) = MaxLen
    /\ last.tag = "ok"
    /\ last.val = 2 * (2 * (src[1] + 1) + src[2] + 1) + src[3] + 1

\* ---- C13 ------------------------------------------------------------------
\* collect(partition(p)), step by step, after pulls by hand.
NextPartition ==
    \/ Call_next("a", MaxOps)
    \/ \E p \in Preds : collect_with("a", partition(p))
    \/ collect_step
    \/ collect_finish

SpecPartition == Init /\ [][NextPartition]_vars

\* The elements of xs that satisfy p (yes = TRUE) or do not (yes = FALSE), in
\* the order of xs.
Bucket(xs, p, yes) == SelectSeq(xs, LAMBDA v : (v \in p) = yes)

\* C13: collect(partition(p)) returns a pair, whatever the stream holds: first
\* the remaining elements that do not satisfy p, second those that do, each
\* in cursor order, a bucket without elements being the empty list; every
\* element is in exactly one bucket, and p was called once per element.
C13_PartitionTwoBuckets ==
    (Collected /\ last.arg.kind = "partition") =>
      /\ last.tag = "ok"
      /\ Len(last.val) = 2
      /\ last.val[1] = Bucket(RestA0, last.arg.predicate, FALSE)
      /\ last.val[2] = Bucket(RestA0, last.arg.predicate, TRUE)
      /\ Len(last.val[1]) + Len(last.val[2]) = Len(RestA0)
      /\ Vals(SelectSeq(Since, LAMBDA e : IsCallOf(e, "predicate"))) = RestA0

C13_Witness ==
    /\ Collected /\ last.arg.kind = "partition"
    /\ last.pos0 = 0 /\ Len(src) = MaxLen
    /\ Len(last.val[1]) = 1
    /\ Len(last.val[2]) = MaxLen - 1

C13_WitnessEmptyBucket ==
    /\ Collected /\ last.arg.kind = "partition"
    /\ last.pos0 = 0 /\ Len(src) = MaxLen
    /\ last.val[1] = src
    /\ last.val[2] = <<>>

\* ---- C12 ------------------------------------------------------------------
ReusedCollectors ==
    {reducing(op) : op \in Ops}
    \cup {reducing_identity(identity, op) : identity \in Values, op \in Ops}
    \cup {partition_downstream(p, d) : p \in Preds, d \in Downstreams}

\* Two streams to collect, one after the other.
InitReuse == InitWith(BSeq(MaxLen - 1), BSeq(MaxLen - 1))

\* One collector value, used for a collect of stream a and then for further
\* collects of a or b.
NextReuse ==
    \/ \E col \in ReusedCollectors :
         run.col.kind = "none" /\ collect_with("a", col)
    \/ \E h \in {"a", "b"} : run.col.kind # "none" /\ collect_with(h, run.col)
    \/ collect_step
    \/ collect_finish

SpecReuse == InitReuse /\ [][NextReuse]_vars

\* The elements the stream of the last operation had left when it began.
Rest0 == IF last.h = "a" THEN RestA0 ELSE RestB0

\* C12: what a collect returns depends on the collector value and on the
\* stream only, not on the collects the collector was used for before: with
\* reducing(op) it is what reduce(op) returns on that stream, with
\* reducing_identity(identity, op) what reduce_identity(identity, op) returns.
\* With partition_downstream(p, d) it is the pair of what d collects from the
\* elements that do not satisfy p and what d collects from those that do,
\* each collected on its own with a supplier call of its own (d's error if
\* one of the two raises), the bucket of False first.
C12_CollectorKeepsNoState ==
    Collected =>
      /\ last.arg.kind = "reducing" =>
           LET r == reduce(last.h, CS0, last.arg.op).res IN
           last.tag = r.tag /\ last.val = r.val
      /\ last.arg.kind = "reducing_mapper" =>
           LET r == reduce_identity(last.h, CS0, last.arg.identity,
                                    last.arg.op).res IN
           last.tag = r.tag /\ last.val = r.val
      /\ last.arg.kind = "partition_downstream" =>
           LET d == last.arg.downstream
               no == Bucket(Rest0, last.arg.predicate, FALSE)
               yes == Bucket(Rest0, last.arg.predicate, TRUE)
               x == collect_of(no, d)
               y == collect_of(yes, d) IN
           /\ IF x.tag = "ok" /\ y.tag = "ok"
              THEN /\ last.tag = "ok"
                   /\ last.val = <<x.val, y.val>>
                   /\ Count(LAMBDA e : IsCallOf(e, "d.supplier")) = 2
                   /\ Count(LAMBDA e : IsCallOf(e, "d.finisher")) = 2
              ELSE /\ last.tag = "raise"
                   /\ last.val = IF x.tag = "ok" THEN y.val ELSE x.val
           /\ (d = to_list_collector) => last.val = <<no, yes>>
           /\ (d = reducing("first") /\ no # <<>> /\ yes # <<>>)
                => last.val = <<Head(no), Head(yes)>>

C12_Witness ==
    /\ Collected /\ last.again
    /\ last.h = "b"
    /\ last.arg = reducing("lin")
    /\ Len(src) = MaxLen - 1 /\ Len(srcB) = MaxLen - 1
    /\ last.posB0 = 0
    /\ last.tag = "ok"
    /\ last.val = 2 * srcB[1] + srcB[2]

C12_WitnessDownstream ==
    /\ Collected /\ last.again
    /\ last.h = "b"
    /\ last.arg.kind = "partition_downstream"
    /\ last.arg.downstream = reducing("lin")
    /\ Len(src) = MaxLen - 1 /\ Len(srcB) = MaxLen - 1
    /\ last.tag = "ok"
    /\ last.val = <<srcB[1], srcB[2]>>

\* ---- C21 ------------------------------------------------------------------
\* A flat_map stage and its upstream, pulled by hand and listed.
NextFlat ==
    \/ Call_flat_map
    \/ \E h \in {"a", "stage"} : Call_next(h, MaxPulls)
    \/ Call_to_list("stage")

SpecFlat == Init /\ [][NextFlat]_vars

\* Log entry j is the flat_map stage taking an element from the upstream:
\* the cursor produces it and the mapper is called on it at once.
Mapped(j) ==
    /\ j < Len(log)
    /\ IsSrcA(log[j])
    /\ IsCallOf(log[j + 1], "mapper")

\* At log entry j the stage moves the cursor of a: it takes an element, or
\* finds that there is none and reports exhaustion.  (A caller that pulls a
\* by hand moves the cursor too; that is not the stage's doing.)
Advances(j) ==
    \/ Mapped(j)
    \/ /\ j < Len(log)
       /\ IsStopA(log[j])
       /\ IsStageStop(log[j + 1])

\* What the stage delivered between log entries j and k.
DeliveredBetween(j, k) ==
    Vals(SelectSeq(SubSeq(log, j + 1, k - 1), IsGotStage))

RECURSIVE Flattened(_, _)
Flattened(m, xs) ==
    IF xs = <<>> THEN <<>>
    ELSE Nested(m, Head(xs)) \o Flattened(m, Tail(xs))

\* C21: when the flat_map stage has taken an element x from the upstream,
\* everything it delivers until it moves the upstream cursor again is the
\* nested sequence mapper(x) from its start, in order, and the cursor does
\* not move, and mapper is not called again, before all of mapper(x) has
\* been delivered; an x with an empty mapper(x) delivers nothing.  to_list()
\* of the stage is the nested sequences of the remaining elements one after
\* the other, after what was left of the nested sequence being drained.
C21_FlatMapDrainsNested ==
    stage.kind = "flat_map" =>
      /\ \A j \in 1..Len(log) : Mapped(j) =>
           LET nested == Nested(stage.f, log[j].v)
               later == {k \in (j + 1)..Len(log) : Advances(k)}
               k == IF later = {} THEN Len(log) + 1
                    ELSE CHOOSE x \in later : \A y \in later : x <= y
               d == DeliveredBetween(j, k) IN
           /\ Len(d) <= Len(nested)
           /\ d = SubSeq(nested, 1, Len(d))
           /\ later # {} => d = nested
           /\ \A i \in (j + 2)..(k - 1) : ~IsCallOf(log[i], "mapper")
      /\ (last.op = "to_list" /\ last.h = "stage") =>
           /\ last.tag = "ok"
           /\ last.val = last.stage0.inner
                           \o Flattened(stage.f, RestA0)

C21_Witness ==
    /\ stage.kind = "flat_map" /\ stage.f = "rep"
    /\ \E j \in 1..Len(log) :
         /\ Mapped(j) /\ log[j].v = 2
         /\ \E k \in (j + 1)..Len(log) :
              /\ IsSrcA(log[k]) /\ log[k].i = log[j].i + 1
              /\ DeliveredBetween(j, k) = <<1, 2>>
    /\ \E j \in 1..Len(log) : Mapped(j) /\ log[j].v = 1

C21_WitnessList ==
    /\ stage.kind = "flat_map" /\ stage.f = "rep"
    /\ last.op = "to_list" /\ last.h = "stage" /\ last.pos0 = 0
    /\ src = <<2, 1, 2>>
    /\ last.val = <<1, 2, 1, 2>>

\* ---- C22 ------------------------------------------------------------------
\* A sorted stage and its upstream, pulled by hand and listed.
NextSorted ==
    \/ Call_sorted
    \/ \E h \in {"a", "stage"} : Call_next(h, MaxPulls)
    \/ Call_to_list("stage")

SpecSorted == Init /\ [][NextSorted]_vars

Ascending(xs) == \A j \in 1..(Len(xs) - 1) : xs[j] <= xs[j + 1]
Occurrences(xs, v) == Len(SelectSeq(xs, LAMBDA x : x = v))
SameElements(xs, ys) == \A v \in Values : Occurrences(xs, v) = Occurrences(ys, v)

\* C22: when sorted() returns, the upstream cursor has produced every
\* element it had left and has signalled exhaustion, and the stage has
\* delivered nothing; from then on a pull of the upstream finds it exhausted.
\* What the stage delivers afterwards is in ascending order, takes nothing
\* more from the upstream, and, once the stage has signalled exhaustion or
\* been listed, is the elements the upstream had left when sorted() was
\* called, each as often as it occurred.
C22_SortedConsumesAtCreation ==
    stage.kind = "sorted" =>
      LET rest == SubSeq(src, stage.at + 1, Len(src))
          delivered == Vals(SelectSeq(log, IsGotStage)) IN
      /\ pos = Len(src)
      /\ last.op = "sorted" =>
           /\ Vals(SelectSeq(Since, IsSrcA)) = rest
           /\ Since # <<>>
           /\ Since[Len(Since)] = Ev("srcstop", "a", 0, 0)
           /\ delivered = <<>>
           /\ Ascending(stage.inner) /\ SameElements(stage.inner, rest)
      /\ (last.op = "next" /\ last.h = "a") => last.tag = "stop"
      /\ (last.op \in {"next", "to_list"} /\ last.h = "stage") =>
           ~\E j \in 1..Len(Since) : IsSrcA(Since[j]) \/ IsStopA(Since[j])
      /\ Ascending(delivered)
      /\ Len(delivered) <= Len(rest)
      /\ \A v \in Values : Occurrences(delivered, v) <= Occurrences(rest, v)
      /\ Some(IsStageStop) => SameElements(delivered, rest)
      /\ (last.op = "to_list" /\ last.h = "stage") =>
           /\ last.tag = "ok"
           /\ Ascending(last.val)
           /\ last.stage0.cnt = 0 => SameElements(last.val, rest)

C22_Witness ==
    /\ stage.kind = "sorted"
    /\ last.op = "sorted"
    /\ last.pos0 = 0 /\ Len(src) = MaxLen
    /\ ~Ascending(src)
    /\ pos = Len(src)
    /\ ~Some(IsGotStage)

C22_WitnessList ==
    /\ stage.kind = "sorted"
    /\ last.op = "to_list" /\ last.h = "stage"
    /\ stage.at = 0 /\ src = <<2, 1, 2>>
    /\ last.val = <<1, 2, 2>>

====
